---- MODULE Spec2Model ----
(***************************************************************************)
(* Model of page_rank.py: load_graph, stochastic_page_rank,                *)
(* distribution_page_rank and the sequencing of main().                    *)
(*                                                                         *)
(* A dict is an insertion-ordered sequence of <<key, value>> pairs.  A     *)
(* line is a tuple of one-character strings, a token (node name) is the    *)
(* tuple of its characters.  Scores are exact rationals <<num, den>> in    *)
(* lowest terms (floating-point rounding is not modelled).                 *)
(***************************************************************************)
EXTENDS Integers, Sequences, FiniteSets, TLC

VARIABLES pc, err, fd, graph, web, n_iter, n_steps, walk, step, i,
          current_node, hit_count, node_prob, next_prob, node_idx, ranking

vars == <<pc, err, fd, graph, web, n_iter, n_steps, walk, step, i,
          current_node, hit_count, node_prob, next_prob, node_idx, ranking>>

(* ------------------------------ bounds --------------------------------- *)
MaxLines == 3
MaxWalks == 2
MaxSteps == 2
MaxSweeps == 2

(* ------------------------------ inputs --------------------------------- *)
Whitespace == {" ", "\n", "\t"}

GoodLines ==
    { <<"b", " ", "a", "\n">>,
      <<"a", " ", "a", "\n">>,
      <<"b", " ", "c", "\n">>,
      <<"c", " ", "a", "\n">>,
      <<" ", "a", "\t", " ", "b", "\n">> }

BadLines ==
    { <<"\n">>,
      <<"a", "\n">>,
      <<"a", " ", "b", " ", "c", "\n">> }

Lines == GoodLines \cup BadLines

(* ---------------------------- rationals -------------------------------- *)
RECURSIVE GCD(_, _)
GCD(a, b) == IF b = 0 THEN a ELSE GCD(b, a % b)

Norm(n, d) == LET g == GCD(n, d) IN <<n \div g, d \div g>>

Zero == <<0, 1>>

One == <<1, 1>>

RatAdd(a, b) == Norm(a[1] * b[2] + b[1] * a[2], a[2] * b[2])

RatDivInt(a, n) == Norm(a[1], a[2] * n)

(* ------------------------------ dicts ---------------------------------- *)
Keys(d) == {d[j][1] : j \in 1..Len(d)}

Has(d, k) == k \in Keys(d)

Get(d, k) == d[CHOOSE j \in 1..Len(d) : d[j][1] = k][2]

Put(d, k, v) ==
    IF Has(d, k)
    THEN [j \in 1..Len(d) |-> IF d[j][1] = k THEN <<k, v>> ELSE d[j]]
    ELSE Append(d, <<k, v>>)

NoErr == [type |-> "none", line |-> 0]

Raise(t, l) == [type |-> t, line |-> l]

(* ---------------------------- load_graph ------------------------------- *)
RECURSIVE SplitFrom(_, _, _, _)
SplitFrom(line, j, cur, acc) ==
    IF j > Len(line)
    THEN IF cur = <<>> THEN acc ELSE Append(acc, cur)
    ELSE IF line[j] \in Whitespace
         THEN SplitFrom(line, j + 1, <<>>,
                        IF cur = <<>> THEN acc ELSE Append(acc, cur))
         ELSE SplitFrom(line, j + 1, Append(cur, line[j]), acc)

Split(line) == SplitFrom(line, 1, <<>>, <<>>)

\* Mutant of Unpacks: extra tokens are ignored instead of rejected.
Unpacks_AtLeastTwo(toks) == Len(toks) >= 2

Unpacks(toks) == Len(toks) = 2

\* Mutant of AppendEdge: the adjacency list is overwritten, not extended.
AppendEdge_Overwrite(g, node, target) == Put(g, node, <<target>>)

AppendEdge(g, node, target) ==
    IF Has(g, node)
    THEN Put(g, node, Append(Get(g, node), target))
    ELSE Append(g, <<node, <<target>>>>)

Init ==
    /\ pc = "load"
    /\ err = NoErr
    /\ fd = <<>>
    /\ graph = <<>>
    /\ web = <<>>
    /\ n_iter = 0
    /\ n_steps = 0
    /\ walk = 0
    /\ step = 0
    /\ i = 0
    /\ current_node = <<>>
    /\ hit_count = <<>>
    /\ node_prob = <<>>
    /\ next_prob = <<>>
    /\ node_idx = 0
    /\ ranking = <<>>

LoadLine ==
    /\ pc = "load"
    /\ Len(fd) < MaxLines
    /\ \E line \in Lines :
         /\ fd' = Append(fd, line)
         /\ LET toks == Split(line) IN
              IF Unpacks(toks)
              THEN /\ graph' = AppendEdge(graph, toks[1], toks[2])
                   /\ UNCHANGED <<pc, err>>
              ELSE /\ pc' = "failed"
                   /\ err' = Raise("ValueError", 30)
                   /\ UNCHANGED graph
    /\ UNCHANGED <<web, n_iter, n_steps, walk, step, current_node,
                   hit_count, node_prob, next_prob, node_idx, ranking, i>>

LoadReturn ==
    /\ pc = "load"
    /\ web' = graph
    /\ pc' = "main"
    /\ UNCHANGED <<err, fd, graph, n_iter, n_steps, walk, step, current_node,
                   hit_count, node_prob, next_prob, node_idx, ranking, i>>

(* ------------------------ stochastic_page_rank ------------------------- *)
ZeroDict(g) == [j \in 1..Len(g) |-> <<g[j][1], Zero>>]

\* Mutant of GraphLookup: a missing node is treated as an absorbing self-loop.
GraphLookup_SelfLoop(g, node) ==
    IF Has(g, node)
    THEN [ok |-> TRUE, val |-> Get(g, node)]
    ELSE [ok |-> TRUE, val |-> <<node>>]

GraphLookup(g, node) ==
    IF Has(g, node)
    THEN [ok |-> TRUE, val |-> Get(g, node)]
    ELSE [ok |-> FALSE, val |-> <<>>]

StochCall ==
    /\ pc = "main"
    /\ \E n \in 0..MaxWalks, s \in 0..MaxSteps :
         /\ n_iter' = n
         /\ n_steps' = s
    /\ hit_count' = ZeroDict(web)
    /\ walk' = 0
    /\ pc' = "walk_start"
    /\ UNCHANGED <<err, fd, graph, web, step, current_node,
                   node_prob, next_prob, node_idx, ranking, i>>

StochStart ==
    /\ pc = "walk_start"
    /\ walk < n_iter
    /\ IF web = <<>>
       THEN /\ pc' = "failed"
            /\ err' = Raise("IndexError", 68)
            /\ UNCHANGED <<current_node, step>>
       ELSE /\ \E c \in Keys(web) : current_node' = c
            /\ step' = 0
            /\ pc' = "walk_step"
            /\ UNCHANGED err
    /\ UNCHANGED <<fd, graph, web, n_iter, n_steps, walk,
                   hit_count, node_prob, next_prob, node_idx, ranking, i>>

\* Mutant of StochStep: the followed edge is removed from the graph.
StochStep_Consume ==
    /\ pc = "walk_step"
    /\ step < n_steps
    /\ Has(web, current_node)
    /\ \E j \in 1..Len(Get(web, current_node)) :
         /\ current_node' = Get(web, current_node)[j]
         /\ web' = Put(web, current_node,
                       SubSeq(Get(web, current_node), 1, j - 1)
                       \o SubSeq(Get(web, current_node), j + 1,
                                 Len(Get(web, current_node))))
    /\ step' = step + 1
    /\ UNCHANGED <<pc, err, fd, graph, n_iter, n_steps, walk,
                   hit_count, node_prob, next_prob, node_idx, ranking, i>>

StochStep ==
    /\ pc = "walk_step"
    /\ step < n_steps
    /\ LET out == GraphLookup(web, current_node) IN
         IF ~out.ok
         THEN /\ pc' = "failed"
              /\ err' = Raise("KeyError", 72)
              /\ UNCHANGED <<current_node, step>>
         ELSE IF out.val = <<>>
         THEN /\ pc' = "failed"
              /\ err' = Raise("IndexError", 72)
              /\ UNCHANGED <<current_node, step>>
         ELSE /\ \E j \in 1..Len(out.val) : current_node' = out.val[j]
              /\ step' = step + 1
              /\ UNCHANGED <<pc, err>>
    /\ UNCHANGED <<fd, graph, web, n_iter, n_steps, walk,
                   hit_count, node_prob, next_prob, node_idx, ranking, i>>

StochHit ==
    /\ pc = "walk_step"
    /\ step = n_steps
    /\ IF ~Has(hit_count, current_node)
       THEN /\ pc' = "failed"
            /\ err' = Raise("KeyError", 74)
            /\ UNCHANGED <<hit_count, walk>>
       ELSE /\ hit_count' = Put(hit_count, current_node,
                                RatAdd(Get(hit_count, current_node),
                                       Norm(1, n_iter)))
            /\ walk' = walk + 1
            /\ pc' = "walk_start"
            /\ UNCHANGED err
    /\ UNCHANGED <<fd, graph, web, n_iter, n_steps, step, current_node,
                   node_prob, next_prob, node_idx, ranking, i>>

StochReturn ==
    /\ pc = "walk_start"
    /\ walk = n_iter
    /\ ranking' = hit_count
    /\ pc' = "stoch_done"
    /\ UNCHANGED <<err, fd, graph, web, n_iter, n_steps, walk, step,
                   current_node, hit_count, node_prob, next_prob, node_idx, i>>

(* ----------------------- distribution_page_rank ------------------------ *)
\* Mutant of Uniform: 1 / out-degree of the node instead of 1 / node count.
Uniform_ByDegree(g) == [j \in 1..Len(g) |-> <<g[j][1], Norm(1, Len(g[j][2]))>>]

Uniform(g) == [j \in 1..Len(g) |-> <<g[j][1], Norm(1, Len(g))>>]

\* Mutant of FreshNextProb: next_prob is created once and reused by later sweeps.
FreshNextProb_Stale(g) == IF next_prob = <<>> THEN ZeroDict(g) ELSE next_prob

FreshNextProb(g) == ZeroDict(g)

\* Mutant of AddToTargets: each distinct target receives p once per node.
RECURSIVE AddToTargets_Distinct(_, _, _)
AddToTargets_Distinct(np, targets, p) ==
    IF targets = <<>>
    THEN [ok |-> TRUE, val |-> np]
    ELSE IF ~Has(np, Head(targets))
         THEN [ok |-> FALSE, val |-> np]
         ELSE IF \E k \in 2..Len(targets) : targets[k] = Head(targets)
              THEN AddToTargets_Distinct(np, Tail(targets), p)
              ELSE AddToTargets_Distinct(
                       Put(np, Head(targets), RatAdd(Get(np, Head(targets)), p)),
                       Tail(targets), p)

\* Mutant of AddToTargets: a missing target gets a fresh entry starting at 0.
RECURSIVE AddToTargets_Default(_, _, _)
AddToTargets_Default(np, targets, p) ==
    IF targets = <<>>
    THEN [ok |-> TRUE, val |-> np]
    ELSE AddToTargets_Default(
             Put(np, Head(targets),
                 RatAdd(IF Has(np, Head(targets))
                        THEN Get(np, Head(targets)) ELSE Zero, p)),
             Tail(targets), p)

RECURSIVE AddToTargets(_, _, _)
AddToTargets(np, targets, p) ==
    IF targets = <<>>
    THEN [ok |-> TRUE, val |-> np]
    ELSE IF ~Has(np, Head(targets))
         THEN [ok |-> FALSE, val |-> np]
         ELSE AddToTargets(Put(np, Head(targets),
                               RatAdd(Get(np, Head(targets)), p)),
                           Tail(targets), p)

\* Mutant of NodeStep: p also reads what this sweep already added to the node.
NodeStep_InPlace(g, np, nx, j) ==
    AddToTargets(nx, g[j][2],
                 RatDivInt(RatAdd(Get(np, g[j][1]), Get(nx, g[j][1])),
                           Len(g[j][2])))

NodeStep(g, np, nx, j) ==
    AddToTargets(nx, g[j][2], RatDivInt(Get(np, g[j][1]), Len(g[j][2])))

DistCall ==
    /\ pc = "stoch_done"
    /\ \E n \in 0..MaxSweeps : n_iter' = n
    /\ node_prob' = Uniform(web)
    /\ next_prob' = <<>>
    /\ i' = 0
    /\ walk' = 0
    /\ n_steps' = 0
    /\ step' = 0
    /\ current_node' = <<>>
    /\ hit_count' = <<>>
    /\ node_idx' = 0
    /\ pc' = "sweep_start"
    /\ UNCHANGED <<err, fd, graph, web, ranking>>

DistSweepStart ==
    /\ pc = "sweep_start"
    /\ i < n_iter
    /\ next_prob' = FreshNextProb(web)
    /\ node_idx' = 1
    /\ pc' = "sweep_node"
    /\ UNCHANGED <<err, fd, graph, web, n_iter, n_steps, walk, step, i,
                   current_node, hit_count, node_prob, ranking>>

DistNode ==
    /\ pc = "sweep_node"
    /\ node_idx <= Len(web)
    /\ IF Len(web[node_idx][2]) = 0
       THEN /\ pc' = "failed"
            /\ err' = Raise("ZeroDivisionError", 107)
            /\ UNCHANGED <<next_prob, node_idx>>
       ELSE LET r == NodeStep(web, node_prob, next_prob, node_idx)
            IN /\ next_prob' = r.val
               /\ IF r.ok
                  THEN /\ node_idx' = node_idx + 1
                       /\ UNCHANGED <<pc, err>>
                  ELSE /\ pc' = "failed"
                       /\ err' = Raise("KeyError", 110)
                       /\ UNCHANGED node_idx
    /\ UNCHANGED <<fd, graph, web, n_iter, n_steps, walk, step, i,
                   current_node, hit_count, node_prob, ranking>>

DistAssign ==
    /\ pc = "sweep_node"
    /\ node_idx = Len(web) + 1
    /\ node_prob' = next_prob
    /\ i' = i + 1
    /\ pc' = "sweep_start"
    /\ UNCHANGED <<err, fd, graph, web, n_iter, n_steps, walk, step,
                   current_node, hit_count, next_prob, node_idx, ranking>>

DistReturn ==
    /\ pc = "sweep_start"
    /\ i = n_iter
    /\ ranking' = node_prob
    /\ pc' = "done"
    /\ UNCHANGED <<err, fd, graph, web, n_iter, n_steps, walk, step, i,
                   current_node, hit_count, node_prob, next_prob, node_idx>>

Next ==
    \/ LoadLine
    \/ LoadReturn
    \/ StochCall
    \/ StochStart
    \/ StochStep
    \/ StochHit
    \/ StochReturn
    \/ DistCall
    \/ DistSweepStart
    \/ DistNode
    \/ DistAssign
    \/ DistReturn

Spec == Init /\ [][Next]_vars

(* ======================= properties of the program ==================== *)
RECURSIVE SumVals(_)
SumVals(d) == IF d = <<>> THEN Zero ELSE RatAdd(d[1][2], SumVals(Tail(d)))

Targets(g) == UNION {{g[j][2][k] : k \in 1..Len(g[j][2])} : j \in 1..Len(g)}

OutDegree(g, v) == IF Has(g, v) THEN Len(Get(g, v)) ELSE 0

PositiveOutDegrees(g) == \A v \in Keys(g) \cup Targets(g) : OutDegree(g, v) > 0

Dangling(g) == \E v \in Targets(g) : ~Has(g, v)

InStoch ==
    \/ pc \in {"walk_start", "walk_step", "stoch_done"}
    \/ pc = "failed" /\ err.line \in {68, 72, 74}

InDist ==
    \/ pc \in {"sweep_start", "sweep_node", "done"}
    \/ pc = "failed" /\ err.line \in {107, 110}

SweepComplete == pc = "sweep_node" /\ node_idx = Len(web) + 1

Count(t, seq) == Cardinality({k \in 1..Len(seq) : seq[k] = t})

(* ---- C1 ---- *)
MassConserved ==
    /\ pc \in {"sweep_start", "sweep_node", "done"} => SumVals(node_prob) = One
    /\ SweepComplete => SumVals(next_prob) = SumVals(node_prob)
    /\ pc = "done" => SumVals(ranking) = One

\* C1 (as stated): on every graph whose nodes all have positive out-degree,
\* the scores of distribution_page_rank sum to 1 before and after every
\* sweep and in the returned mapping.
C1_Original == PositiveOutDegrees(web) => MassConserved

\* C1 (amended): on every NON-EMPTY graph whose nodes all have positive
\* out-degree, the scores of distribution_page_rank sum to 1 before and after
\* every sweep, each completed sweep leaves the total of next_prob equal to
\* the total of node_prob, and the returned mapping sums to 1.
C1_MassConservation == (web # <<>> /\ PositiveOutDegrees(web)) => MassConserved

C1_Witness ==
    /\ pc = "done"
    /\ n_iter >= 2
    /\ PositiveOutDegrees(web)
    /\ \E j \in 1..Len(web) : Len(web[j][2]) >= 2
    /\ Len(web) >= 2

(* ---- C2 ---- *)
\* C2: for every graph with at least one key (on the empty graph no mapping
\* over its keys can sum to 1) and every n_iter >= 1, n_steps >= 0, a call of
\* stochastic_page_rank ends by returning a mapping whose scores sum to 1.
C2_SumsToOne ==
    (web # <<>> /\ n_iter >= 1 /\ InStoch /\ pc \in {"stoch_done", "failed"})
        => (pc = "stoch_done" /\ SumVals(hit_count) = One)

(* ---- C3 ---- *)
WellFormed(line) == Len(Split(line)) = 2

Origin(line) == Split(line)[1]

Target(line) == Split(line)[2]

RECURSIVE TargetsOf(_, _)
TargetsOf(k, ls) ==
    IF ls = <<>> THEN <<>>
    ELSE (IF Origin(Head(ls)) = k THEN <<Target(Head(ls))>> ELSE <<>>)
         \o TargetsOf(k, Tail(ls))

\* C3: at every point of load_graph and in its result, the key set of the
\* graph is exactly the set of origins of the well-formed lines read, each
\* key maps to the targets of its lines in input order with duplicates kept,
\* and every adjacency sequence is non-empty.
C3_LoadGraph ==
    (pc \in {"load", "main"} \/ err.line = 30) =>
        LET ls == SelectSeq(fd, WellFormed) IN
        /\ Keys(graph) = {Origin(ls[j]) : j \in 1..Len(ls)}
        /\ Cardinality(Keys(graph)) = Len(graph)
        /\ \A j \in 1..Len(graph) :
             /\ graph[j][2] = TargetsOf(graph[j][1], ls)
             /\ graph[j][2] # <<>>
        /\ pc = "main" => web = graph

C3_Witness ==
    /\ pc = "main"
    /\ Len(web) >= 2
    /\ \E j \in 1..Len(web) :
         /\ Len(web[j][2]) = 2
         /\ web[j][2][1] = web[j][2][2]

(* ---- C4 ---- *)
\* C4: load_graph raises the format error (ValueError of the unpacking at
\* line 30) on the first line that does not split into exactly two tokens;
\* that line changes nothing, no later line is read and no graph is returned.
C4_FormatError ==
    [][ /\ (pc = "load" /\ fd' # fd /\ ~WellFormed(fd'[Len(fd')]))
            => /\ pc' = "failed"
               /\ err' = Raise("ValueError", 30)
               /\ graph' = graph
               /\ web' = <<>>
        /\ pc' # "failed" => \A j \in 1..Len(fd') : WellFormed(fd'[j])
        /\ pc = "failed" => UNCHANGED vars ]_vars

C4_Witness ==
    /\ pc = "failed"
    /\ err = Raise("ValueError", 30)
    /\ Len(fd) = 3
    /\ Len(Split(fd[3])) = 3
    /\ graph # <<>>

(* ---- C5 ---- *)
\* C5 (as stated): with n_iter >= 1 on a graph with a node that is only a
\* target, distribution_page_rank returns nothing and its failure is the
\* division by zero of line 107.
C5_Original ==
    (InDist /\ n_iter >= 1 /\ Dangling(web))
        => /\ pc # "done"
           /\ pc = "failed" => err = Raise("ZeroDivisionError", 107)

\* C5 (amended): with n_iter >= 1 on a loaded graph with a node that is only
\* a target, distribution_page_rank never completes its first sweep and
\* returns nothing; its failure is the KeyError of next_prob[target] += p at
\* line 110, never a division by zero, and next_prob gets no entry for the
\* dangling node.
C5_KeyError ==
    (InDist /\ n_iter >= 1 /\ Dangling(web))
        => /\ pc # "done"
           /\ i = 0
           /\ ~SweepComplete
           /\ Keys(next_prob) \subseteq Keys(web)
           /\ pc = "failed" => err = Raise("KeyError", 110)

C5_Witness ==
    /\ pc = "failed"
    /\ err = Raise("KeyError", 110)
    /\ Dangling(web)
    /\ node_idx >= 2

(* ---- C6 ---- *)
\* C6: a walk that has to take a step from a node that is no key of the
\* graph makes stochastic_page_rank fail with the KeyError of line 72; the
\* walk is not continued, restarted or dropped, and nothing is returned.
C6_WalkFails ==
    [][ /\ (pc = "walk_step" /\ step < n_steps /\ ~Has(web, current_node))
            => /\ pc' = "failed"
               /\ err' = Raise("KeyError", 72)
               /\ UNCHANGED <<walk, step, current_node, hit_count, ranking>>
        /\ pc = "failed" => pc' = "failed" ]_vars

C6_Witness ==
    /\ pc = "failed"
    /\ err = Raise("KeyError", 72)
    /\ walk = 1
    /\ step = 1

(* ---- C7 ---- *)
RECURSIVE SweepFrom(_, _, _, _)
SweepFrom(g, np, nx, j) ==
    IF j > Len(g) THEN nx
    ELSE SweepFrom(g, np, NodeStep(g, np, nx, j).val, j + 1)

RECURSIVE Sweeps(_, _, _)
Sweeps(g, np, m) ==
    IF m = 0 THEN np
    ELSE Sweeps(g, SweepFrom(g, np, ZeroDict(g), 1), m - 1)

\* C7: on a graph with positive out-degrees, the scores held after n + m
\* sweeps of a run equal m sweeps applied to the scores that n sweeps from
\* the uniform start return, for every split n + m of the sweeps done.
C7_Resume ==
    (pc \in {"sweep_start", "done"} /\ PositiveOutDegrees(web))
        => /\ \A n \in 0..i :
                node_prob = Sweeps(web, Sweeps(web, Uniform(web), n), i - n)
           /\ pc = "done" => (i = n_iter /\ ranking = node_prob)

C7_Witness ==
    /\ pc = "done"
    /\ i = 2
    /\ PositiveOutDegrees(web)
    /\ node_prob # Uniform(web)

(* ---- C8 ---- *)
\* C8: distribution_page_rank(g, 0) performs no sweep and returns the
\* mapping whose keys are exactly the keys of g and whose every value is
\* 1/N, N the number of keys of g.
C8_ZeroSweeps ==
    (pc \in {"sweep_start", "done"} /\ n_iter = 0)
        => /\ i = 0
           /\ next_prob = <<>>
           /\ Keys(node_prob) = Keys(web)
           /\ Len(node_prob) = Len(web)
           /\ \A j \in 1..Len(node_prob) :
                node_prob[j][2] = <<1, Cardinality(Keys(web))>>
           /\ pc = "done" => ranking = node_prob

C8_Witness ==
    /\ pc = "done"
    /\ n_iter = 0
    /\ Len(web) = 3
    /\ ranking = Uniform(web)

(* ---- C9 ---- *)
\* C9: once load_graph has returned, no step of stochastic_page_rank or of
\* distribution_page_rank, returning or failing, changes the graph.
C9_GraphUnchanged == [][pc # "load" => (web' = web /\ graph' = graph)]_vars

C9_Witness ==
    /\ pc = "done"
    /\ n_iter >= 1
    /\ web = graph
    /\ Len(web) >= 2

(* ---- C10 ---- *)
RatScale(a, n, d) == Norm(a[1] * n, a[2] * d)

RECURSIVE Inflow(_, _, _, _)
Inflow(g, np, t, j) ==
    IF j > Len(g) THEN Zero
    ELSE RatAdd(RatScale(Get(np, g[j][1]), Count(t, g[j][2]), Len(g[j][2])),
                Inflow(g, np, t, j + 1))

\* C10: when a sweep has processed every node, next_prob[t] equals, for every
\* key t, the sum over all keys u of node_prob[u] * (occurrences of t in u's
\* adjacency sequence) / (length of that sequence), node_prob being the
\* scores from before the sweep.
C10_SynchronousSweep ==
    SweepComplete
        => /\ Keys(next_prob) = Keys(web)
           /\ \A t \in Keys(web) :
                Get(next_prob, t) = Inflow(web, node_prob, t, 1)

C10_Witness ==
    /\ SweepComplete
    /\ i = 1
    /\ Len(web) >= 2
    /\ \E j \in 1..Len(web) :
         /\ Len(web[j][2]) = 2
         /\ web[j][2][1] = web[j][2][2]

====
